---- MODULE Spec2Model ----
(***************************************************************************)
(* Model of the loan-underwriting reward engine                            *)
(* (trinity/plugins/loan_rewards.py, class LoanUnderwritingReward).        *)
(*                                                                         *)
(* Representation.                                                         *)
(*  - Python numbers are exact rationals [n, d] (d > 0, lowest terms).     *)
(*    Sub-scores are kept in hundredths (0.13 is 13) and weighted scores   *)
(*    and rewards in ten-thousandths (1.0 is 10000), so every threshold of *)
(*    the code is an integer.  Binary floating point rounds a few sums     *)
(*    that are exactly 0.4, 0.6 or 0.75 in decimal to a value just below   *)
(*    the threshold; the model's raw score is the decimal value.           *)
(*  - Python strings are sequences of one-character strings, so that       *)
(*    upper(), lower(), substring tests and float()/int() parsing are      *)
(*    computed and not assumed.                                            *)
(*  - A JSON value is a record tagged t (num, str, null, list, map) whose  *)
(*    payload is held in the field of the same name.                       *)
(*  - An operation that can raise returns [exc, v]; exc = "" is a normal   *)
(*    return, otherwise exc names the Python exception class.              *)
(***************************************************************************)
EXTENDS Integers, Sequences, FiniteSets, TLC

-----------------------------------------------------------------------------
(* Exact rational arithmetic standing for Python float arithmetic.          *)

RECURSIVE Gcd(_, _)
Gcd(a, b) == IF b = 0 THEN a ELSE Gcd(b, a % b)

IAbs(i) == IF i < 0 THEN -i ELSE i

Rat(n, d) ==
    LET g == Gcd(IAbs(n), IAbs(d))
        s == IF d < 0 THEN -1 ELSE 1
    IN  [n |-> s * (n \div g), d |-> s * (d \div g)]

R(i) == [n |-> i, d |-> 1]

RAdd(a, b) == Rat(a.n * b.d + b.n * a.d, a.d * b.d)
RNeg(a) == [n |-> -a.n, d |-> a.d]
RSub(a, b) == RAdd(a, RNeg(b))
RMul(a, b) ==
    LET g1 == Gcd(IAbs(a.n), b.d)
        g2 == Gcd(IAbs(b.n), a.d)
    IN  Rat((a.n \div g1) * (b.n \div g2), (a.d \div g2) * (b.d \div g1))
RInv(a) == IF a.n < 0 THEN [n |-> -a.d, d |-> -a.n] ELSE [n |-> a.d, d |-> a.n]
RDiv(a, b) == RMul(a, RInv(b))
RAbs(a) == [n |-> IAbs(a.n), d |-> a.d]
RLt(a, b) == a.n * b.d < b.n * a.d
RLe(a, b) == a.n * b.d <= b.n * a.d
RIsZero(a) == a.n = 0

RECURSIVE RPow(_, _)
RPow(a, k) == IF k = 0 THEN R(1) ELSE RMul(a, RPow(a, k - 1))

\* int(x) on a float: truncation toward zero
RTrunc(a) == IF a.n >= 0 THEN a.n \div a.d ELSE -((-a.n) \div a.d)

-----------------------------------------------------------------------------
(* Strings as character sequences.                                          *)

Lowers == <<"a","b","c","d","e","f","g","h","i","j","k","l","m",
            "n","o","p","q","r","s","t","u","v","w","x","y","z">>
Uppers == <<"A","B","C","D","E","F","G","H","I","J","K","L","M",
            "N","O","P","Q","R","S","T","U","V","W","X","Y","Z">>
Digits == <<"0","1","2","3","4","5","6","7","8","9">>

UpperChar(c) ==
    IF \E i \in 1..26 : Lowers[i] = c
    THEN Uppers[CHOOSE i \in 1..26 : Lowers[i] = c] ELSE c
LowerChar(c) ==
    IF \E i \in 1..26 : Uppers[i] = c
    THEN Lowers[CHOOSE i \in 1..26 : Uppers[i] = c] ELSE c

StrUpper(s) == [i \in 1..Len(s) |-> UpperChar(s[i])]
StrLower(s) == [i \in 1..Len(s) |-> LowerChar(s[i])]

\* Python: sub in s
IsSubstring(sub, s) ==
    \E k \in 0..(Len(s) - Len(sub)) :
        \A i \in 1..Len(sub) : s[k + i] = sub[i]

IsDigit(c) == \E i \in 1..10 : Digits[i] = c
DigitVal(c) == (CHOOSE i \in 1..10 : Digits[i] = c) - 1

RECURSIVE DigitsVal(_)
DigitsVal(s) ==
    IF Len(s) = 0 THEN 0
    ELSE 10 * DigitsVal(SubSeq(s, 1, Len(s) - 1)) + DigitVal(s[Len(s)])

RECURSIVE Pow10(_)
Pow10(k) == IF k = 0 THEN 1 ELSE 10 * Pow10(k - 1)

AllDigits(s) == \A i \in 1..Len(s) : IsDigit(s[i])

\* An optional sign followed by digits
IsIntLiteral(s) ==
    LET body == IF Len(s) > 0 /\ s[1] = "-" THEN Tail(s) ELSE s
    IN  Len(body) > 0 /\ AllDigits(body)
IntLiteralVal(s) ==
    IF s[1] = "-" THEN -DigitsVal(Tail(s)) ELSE DigitsVal(s)

DotPos(s) == IF \E i \in 1..Len(s) : s[i] = "."
             THEN CHOOSE i \in 1..Len(s) : s[i] = "." /\ \A j \in 1..(i-1) : s[j] # "."
             ELSE 0

\* An optional sign, digits, and optionally a point with more digits
IsFloatLiteral(s) ==
    LET body == IF Len(s) > 0 /\ s[1] = "-" THEN Tail(s) ELSE s
        p    == DotPos(body)
    IN  IF p = 0 THEN Len(body) > 0 /\ AllDigits(body)
        ELSE /\ AllDigits(SubSeq(body, 1, p - 1))
             /\ AllDigits(SubSeq(body, p + 1, Len(body)))
             /\ Len(body) > 1
FloatLiteralVal(s) ==
    LET neg  == s[1] = "-"
        body == IF neg THEN Tail(s) ELSE s
        p    == DotPos(body)
        ip   == IF p = 0 THEN body ELSE SubSeq(body, 1, p - 1)
        fp   == IF p = 0 THEN <<>> ELSE SubSeq(body, p + 1, Len(body))
        mag  == Rat(DigitsVal(ip) * Pow10(Len(fp)) + DigitsVal(fp), Pow10(Len(fp)))
    IN  IF neg THEN RNeg(mag) ELSE mag

-----------------------------------------------------------------------------
(* JSON values and the Python operations the scorers apply to them.         *)

JNum(r)  == [t |-> "num",  num |-> r]
JInt(i)  == [t |-> "num",  num |-> R(i)]
JStr(s)  == [t |-> "str",  str |-> s]
JList(q) == [t |-> "list", list |-> q]
JMap(m)  == [t |-> "map",  map |-> m]
JNull    == [t |-> "null"]
EmptyMap == JMap(<<>>)

Ok(x)     == [exc |-> "", v |-> x]
Raise(e)  == [exc |-> e,  v |-> 0]

JEq(a, b) == a = b

\* The character sequences of the string literals of the code and of the
\* field values of the responses
Chars ==
    ("agent_outputs" :> <<"a", "g", "e", "n", "t", "_", "o", "u", "t", "p", "u", "t", "s">>)
    @@ ("decision" :> <<"d", "e", "c", "i", "s", "i", "o", "n">>)
    @@ ("trajectory_id" :> <<"t", "r", "a", "j", "e", "c", "t", "o", "r", "y", "_", "i", "d">>)
    @@ ("loan_officer" :> <<"l", "o", "a", "n", "_", "o", "f", "f", "i", "c", "e", "r">>)
    @@ ("credit_analyst" :> <<"c", "r", "e", "d", "i", "t", "_", "a", "n", "a", "l", "y", "s", "t">>)
    @@ ("risk_manager" :> <<"r", "i", "s", "k", "_", "m", "a", "n", "a", "g", "e", "r">>)
    @@ ("monthly_income" :> <<"m", "o", "n", "t", "h", "l", "y", "_", "i", "n", "c", "o", "m", "e">>)
    @@ ("monthly_debts" :> <<"m", "o", "n", "t", "h", "l", "y", "_", "d", "e", "b", "t", "s">>)
    @@ ("loan_amount" :> <<"l", "o", "a", "n", "_", "a", "m", "o", "u", "n", "t">>)
    @@ ("dti_ratio" :> <<"d", "t", "i", "_", "r", "a", "t", "i", "o">>)
    @@ ("credit_score" :> <<"c", "r", "e", "d", "i", "t", "_", "s", "c", "o", "r", "e">>)
    @@ ("risk_assessment" :> <<"r", "i", "s", "k", "_", "a", "s", "s", "e", "s", "s", "m", "e", "n", "t">>)
    @@ ("interest_rate" :> <<"i", "n", "t", "e", "r", "e", "s", "t", "_", "r", "a", "t", "e">>)
    @@ ("term_months" :> <<"t", "e", "r", "m", "_", "m", "o", "n", "t", "h", "s">>)
    @@ ("monthly_payment" :> <<"m", "o", "n", "t", "h", "l", "y", "_", "p", "a", "y", "m", "e", "n", "t">>)
    @@ ("recommendation" :> <<"r", "e", "c", "o", "m", "m", "e", "n", "d", "a", "t", "i", "o", "n">>)
    @@ ("APPROVED" :> <<"A", "P", "P", "R", "O", "V", "E", "D">>)
    @@ ("DENIED" :> <<"D", "E", "N", "I", "E", "D">>)
    @@ ("approved" :> <<"a", "p", "p", "r", "o", "v", "e", "d">>)
    @@ ("APPROV" :> <<"A", "P", "P", "R", "O", "V">>)
    @@ ("DENI" :> <<"D", "E", "N", "I">>)
    @@ ("DECLIN" :> <<"D", "E", "C", "L", "I", "N">>)
    @@ ("low" :> <<"l", "o", "w">>)
    @@ ("medium" :> <<"m", "e", "d", "i", "u", "m">>)
    @@ ("high" :> <<"h", "i", "g", "h">>)
    @@ ("Low" :> <<"L", "o", "w">>)
    @@ ("excellent" :> <<"e", "x", "c", "e", "l", "l", "e", "n", "t">>)
    @@ ("good" :> <<"g", "o", "o", "d">>)
    @@ ("fair" :> <<"f", "a", "i", "r">>)
    @@ ("poor" :> <<"p", "o", "o", "r">>)
    @@ ("unknown" :> <<"u", "n", "k", "n", "o", "w", "n">>)
    @@ ("employed" :> <<"e", "m", "p", "l", "o", "y", "e", "d">>)
    @@ ("dti" :> <<"d", "t", "i">>)
    @@ ("credit" :> <<"c", "r", "e", "d", "i", "t">>)
    @@ ("Approve" :> <<"A", "p", "p", "r", "o", "v", "e">>)
    @@ ("Decline" :> <<"D", "e", "c", "l", "i", "n", "e">>)
    @@ ("Review" :> <<"R", "e", "v", "i", "e", "w">>)
    @@ ("high dti" :> <<"h", "i", "g", "h", " ", "d", "t", "i">>)
    @@ ("low credit score" :> <<"l", "o", "w", " ", "c", "r", "e", "d", "i", "t", " ", "s", "c", "o", "r", "e">>)
    @@ ("stable job" :> <<"s", "t", "a", "b", "l", "e", " ", "j", "o", "b">>)
    @@ ("2" :> <<"2">>)
    @@ ("0.4" :> <<"0", ".", "4">>)
    @@ ("abc" :> <<"a", "b", "c">>)
    @@ ("t1" :> <<"t", "1">>)


\* Python: key in x  (dict: key lookup; list: element equality; str: substring)
PyIn(k, x) ==
    CASE x.t = "map"  -> Ok(k \in DOMAIN x.map)
      [] x.t = "list" -> Ok(\E i \in 1..Len(x.list) : JEq(x.list[i], JStr(Chars[k])))
      [] x.t = "str"  -> Ok(IsSubstring(Chars[k], x.str))
      [] OTHER        -> Raise("TypeError")

\* Python: x.get(k, default)
PyGet(x, k, default) ==
    IF x.t = "map"
    THEN Ok(IF k \in DOMAIN x.map THEN x.map[k] ELSE default)
    ELSE Raise("AttributeError")

\* Python: x[k] with a string key
PyIndex(x, k) ==
    IF x.t = "map"
    THEN IF k \in DOMAIN x.map THEN Ok(x.map[k]) ELSE Raise("KeyError")
    ELSE Raise("TypeError")

\* Python: float(x)
PyFloat(x) ==
    CASE x.t = "num" -> Ok(x.num)
      [] x.t = "str" -> IF IsFloatLiteral(x.str) THEN Ok(FloatLiteralVal(x.str))
                        ELSE Raise("ValueError")
      [] OTHER       -> Raise("TypeError")

\* Python: int(x)
PyInt(x) ==
    CASE x.t = "num" -> Ok(RTrunc(x.num))
      [] x.t = "str" -> IF IsIntLiteral(x.str) THEN Ok(IntLiteralVal(x.str))
                        ELSE Raise("ValueError")
      [] OTHER       -> Raise("TypeError")

\* Python: x.lower(), x.upper()
PyLower(x) == IF x.t = "str" THEN Ok(StrLower(x.str)) ELSE Raise("AttributeError")
PyUpper(x) == IF x.t = "str" THEN Ok(StrUpper(x.str)) ELSE Raise("AttributeError")

\* Python: float(x.get(k, 0)), int(x.get(k, 0)), x.get(k, "").lower()/.upper()
GetFloat(x, k) ==
    LET g == PyGet(x, k, JInt(0)) IN IF g.exc # "" THEN g ELSE PyFloat(g.v)
GetInt(x, k) ==
    LET g == PyGet(x, k, JInt(0)) IN IF g.exc # "" THEN g ELSE PyInt(g.v)
GetLower(x, k) ==
    LET g == PyGet(x, k, JStr(<<>>)) IN IF g.exc # "" THEN g ELSE PyLower(g.v)
GetUpper(x, k) ==
    LET g == PyGet(x, k, JStr(<<>>)) IN IF g.exc # "" THEN g ELSE PyUpper(g.v)

\* Python: all(field in x for field in fields)
AllIn(fields, x) ==
    IF x.t \in {"map", "list", "str"}
    THEN Ok(\A i \in 1..Len(fields) : PyIn(fields[i], x).v)
    ELSE Raise("TypeError")

-----------------------------------------------------------------------------
(* _check_structure: additive structure score in hundredths.                *)

required_fields == <<"agent_outputs", "decision", "trajectory_id">>
required_agents == <<"loan_officer", "credit_analyst", "risk_manager">>
lo_critical == <<"monthly_income", "monthly_debts", "loan_amount">>
ca_critical == <<"dti_ratio", "credit_score", "risk_assessment">>
rm_critical == <<"decision", "interest_rate">>

Count(S) == Cardinality(S)

\* An agent check that awards 0.15 per mapping-shaped agent
AgentShapes_Fifteen(agents) ==
    IF agents.t \notin {"map", "list", "str"} THEN Raise("TypeError")
    ELSE LET present == {i \in 1..3 : PyIn(required_agents[i], agents).v}
         IN  IF present # {} /\ agents.t # "map" THEN Raise("TypeError")
             ELSE Ok(15 * Count({i \in present : agents.map[required_agents[i]].t = "map"}))

\* for agent in required_agents:
\*     if agent in agents and isinstance(agents[agent], dict): score += 0.13
AgentShapes(agents) ==
    IF agents.t \notin {"map", "list", "str"} THEN Raise("TypeError")
    ELSE LET present == {i \in 1..3 : PyIn(required_agents[i], agents).v}
         IN  IF present # {} /\ agents.t # "map" THEN Raise("TypeError")
             ELSE Ok(13 * Count({i \in present : agents.map[required_agents[i]].t = "map"}))

\* if name in agents: a = agents[name]; if all(field in a for field in fields): score += 0.1
CriticalFields(agents, name, fields) ==
    IF ~PyIn(name, agents).v THEN Ok(0)
    ELSE LET a == PyIndex(agents, name)
         IN  IF a.exc # "" THEN a
             ELSE LET c == AllIn(fields, a.v)
                  IN  IF c.exc # "" THEN c ELSE Ok(IF c.v THEN 10 ELSE 0)

Min(a, b) == IF a < b THEN a ELSE b
Max(a, b) == IF a > b THEN a ELSE b

\* A top-level check that awards 0.25 per field
TopLevelFields_Quarter(response_data) ==
    25 * Count({i \in 1..3 : PyIn(required_fields[i], response_data).v})

\* for field in required_fields: if field in response_data: score += 0.2
TopLevelFields(response_data) ==
    20 * Count({i \in 1..3 : PyIn(required_fields[i], response_data).v})

\* A structure check that returns score instead of min(score, 1.0)
_check_structure_Uncapped(response_data) ==
    IF response_data.t \notin {"map", "list", "str"} THEN Raise("TypeError")
    ELSE
    LET top == TopLevelFields(response_data)
        ag  == PyGet(response_data, "agent_outputs", EmptyMap)
    IN  IF ag.exc # "" THEN ag
        ELSE
        LET shapes == AgentShapes(ag.v)
        IN  IF shapes.exc # "" THEN shapes
            ELSE
            LET lo == CriticalFields(ag.v, "loan_officer", lo_critical)
                ca == CriticalFields(ag.v, "credit_analyst", ca_critical)
                rm == CriticalFields(ag.v, "risk_manager", rm_critical)
            IN  IF lo.exc # "" THEN lo
                ELSE IF ca.exc # "" THEN ca
                ELSE IF rm.exc # "" THEN rm
                ELSE Ok(top + shapes.v + lo.v + ca.v + rm.v)

_check_structure(response_data) ==
    IF response_data.t \notin {"map", "list", "str"} THEN Raise("TypeError")
    ELSE
    LET top == TopLevelFields(response_data)
        ag  == PyGet(response_data, "agent_outputs", EmptyMap)
    IN  IF ag.exc # "" THEN ag
        ELSE
        LET shapes == AgentShapes(ag.v)
        IN  IF shapes.exc # "" THEN shapes
            ELSE
            LET lo == CriticalFields(ag.v, "loan_officer", lo_critical)
                ca == CriticalFields(ag.v, "credit_analyst", ca_critical)
                rm == CriticalFields(ag.v, "risk_manager", rm_critical)
            IN  IF lo.exc # "" THEN lo
                ELSE IF ca.exc # "" THEN ca
                ELSE IF rm.exc # "" THEN rm
                ELSE Ok(Min(top + shapes.v + lo.v + ca.v + rm.v, 100))

-----------------------------------------------------------------------------
(* Statement-by-statement evaluation of a scorer body.  A frame holds the   *)
(* pending exception (exc), whether the body has returned (done), the       *)
(* running score and the locals; a statement leaves a frame that is not     *)
(* live untouched, so an exception keeps the score accumulated before it.   *)

Live(s) == s.exc = "" /\ ~s.done
Assign(s, f, r) ==
    IF ~Live(s) THEN s
    ELSE IF r.exc # "" THEN [s EXCEPT !.exc = r.exc]
    ELSE [s EXCEPT ![f] = r.v]
AddScore(s, inc) == IF Live(s) THEN [s EXCEPT !.score = @ + inc] ELSE s
\* except (<caught>) as e: log and fall through to the return statement
Except(s, caught) == IF s.exc \in caught THEN [s EXCEPT !.exc = ""] ELSE s
\* return min(score, 1.0)
ReturnScore(s) == IF s.exc # "" THEN Raise(s.exc) ELSE Ok(Min(s.score, 100))

-----------------------------------------------------------------------------
(* _verify_calculations                                                     *)

VCFrame ==
    [exc |-> "", done |-> FALSE, score |-> 0,
     monthly_income |-> R(0), monthly_debts |-> R(0), loan_amount |-> R(0),
     interest_rate |-> R(0), term_months |-> 0,
     monthly_payment |-> R(0), payment_bound |-> FALSE,
     reported_dti |-> R(0), risk_assessment |-> <<>>,
     interest_rate_annual |-> R(0), reported_payment |-> R(0)]

\* monthly_income, monthly_debts, loan_amount = float(loan_officer.get(..., 0))
VCExtract(s, loan_officer) ==
    Assign(Assign(Assign(s,
        "monthly_income", GetFloat(loan_officer, "monthly_income")),
        "monthly_debts", GetFloat(loan_officer, "monthly_debts")),
        "loan_amount", GetFloat(loan_officer, "loan_amount"))

\* if "interest_rate" not in risk_manager or "term_months" not in risk_manager: return score
VCRequireRateAndTerm(s, risk_manager) ==
    IF ~Live(s) THEN s
    ELSE LET a == PyIn("interest_rate", risk_manager)
             b == PyIn("term_months", risk_manager)
         IN  IF a.exc # "" THEN [s EXCEPT !.exc = a.exc]
             ELSE IF ~a.v \/ ~b.v THEN [s EXCEPT !.done = TRUE]
             ELSE s

\* interest_rate = float(risk_manager.get("interest_rate", 0)) / 100 / 12
\* term_months = int(risk_manager.get("term_months", 0))
VCRateAndTerm(s, risk_manager) ==
    LET f  == GetFloat(risk_manager, "interest_rate")
        mr == IF f.exc # "" THEN f ELSE Ok(RDiv(RDiv(f.v, R(100)), R(12)))
    IN  Assign(Assign(s, "interest_rate", mr),
               "term_months", GetInt(risk_manager, "term_months"))

\* P * r * (1 + r)^n / ((1 + r)^n - 1)
AmortizedPayment(loan_amount, r, n) ==
    LET growth == RPow(RAdd(R(1), r), n)
    IN  RDiv(RMul(RMul(loan_amount, r), growth), RSub(growth, R(1)))

\* A ladder whose second rung awards 0.2 instead of 0.3
DtiIncrement_LowSecondRung(reported_dti, expected_dti) ==
    LET diff == RAbs(RSub(reported_dti, expected_dti))
    IN  IF RLt(diff, Rat(5, 100)) THEN 50
        ELSE IF RLt(diff, Rat(1, 10)) THEN 20
        ELSE IF RLt(R(0), reported_dti) THEN 10
        ELSE 0

\* The tolerance ladder on |reported_dti - expected_dti|
DtiIncrement(reported_dti, expected_dti) ==
    LET diff == RAbs(RSub(reported_dti, expected_dti))
    IN  IF RLt(diff, Rat(5, 100)) THEN 50
        ELSE IF RLt(diff, Rat(1, 10)) THEN 30
        ELSE IF RLt(R(0), reported_dti) THEN 10
        ELSE 0

\* A DTI check whose expected DTI leaves out the monthly debts
VCDti_WithoutDebts(s, credit_analyst) ==
    IF ~Live(s) THEN s
    ELSE IF ~(RLt(R(0), s.interest_rate) /\ s.term_months > 0) THEN s
    ELSE LET pay == AmortizedPayment(s.loan_amount, s.interest_rate, s.term_months)
             s1  == [s EXCEPT !.monthly_payment = pay, !.payment_bound = TRUE]
             expected_dti == RDiv(pay, s.monthly_income)
             s2  == Assign(s1, "reported_dti", GetFloat(credit_analyst, "dti_ratio"))
         IN  AddScore(s2, DtiIncrement(s2.reported_dti, expected_dti))

\* if interest_rate > 0 and term_months > 0: payment, expected DTI, comparison
VCDti(s, credit_analyst) ==
    IF ~Live(s) THEN s
    ELSE IF ~(RLt(R(0), s.interest_rate) /\ s.term_months > 0) THEN s
    ELSE LET pay == AmortizedPayment(s.loan_amount, s.interest_rate, s.term_months)
             s1  == [s EXCEPT !.monthly_payment = pay, !.payment_bound = TRUE]
             expected_dti == RDiv(RAdd(s.monthly_debts, pay), s.monthly_income)
             s2  == Assign(s1, "reported_dti", GetFloat(credit_analyst, "dti_ratio"))
         IN  AddScore(s2, DtiIncrement(s2.reported_dti, expected_dti))

RateTierIncrement(risk_assessment, rate) ==
    IF risk_assessment = Chars["low"] /\ RLe(R(5), rate) /\ RLe(rate, R(8)) THEN 25
    ELSE IF risk_assessment = Chars["medium"] /\ RLe(R(8), rate) /\ RLe(rate, R(12)) THEN 25
    ELSE IF risk_assessment = Chars["high"] /\ RLe(R(12), rate) /\ RLe(rate, R(18)) THEN 25
    ELSE IF RLt(R(0), rate) THEN 10
    ELSE 0

\* risk_assessment = credit_analyst.get("risk_assessment", "").lower(); rate tier check
VCRateTier(s, credit_analyst, risk_manager) ==
    LET s1 == Assign(s, "risk_assessment", GetLower(credit_analyst, "risk_assessment"))
        s2 == Assign(s1, "interest_rate_annual", GetFloat(risk_manager, "interest_rate"))
    IN  AddScore(s2, RateTierIncrement(s2.risk_assessment, s2.interest_rate_annual))

\* if "monthly_payment" in risk_manager and monthly_payment > 0: ...
VCPayment(s, risk_manager) ==
    IF ~Live(s) THEN s
    ELSE IF ~PyIn("monthly_payment", risk_manager).v THEN s
    ELSE IF ~s.payment_bound THEN [s EXCEPT !.exc = "UnboundLocalError"]
    ELSE IF ~RLt(R(0), s.monthly_payment) THEN s
    ELSE LET s1  == Assign(s, "reported_payment", GetFloat(risk_manager, "monthly_payment"))
             rel == RDiv(RAbs(RSub(s1.reported_payment, s1.monthly_payment)), s1.monthly_payment)
         IN  AddScore(s1, IF RLt(rel, Rat(5, 100)) THEN 25 ELSE 0)

_verify_calculations(loan_officer, credit_analyst, risk_manager) ==
    LET s0 == VCExtract(VCFrame, loan_officer)
        s1 == IF Live(s0) /\ RLt(R(0), s0.monthly_income)
              THEN VCPayment(
                     VCRateTier(
                       VCDti(
                         VCRateAndTerm(
                           VCRequireRateAndTerm(s0, risk_manager),
                           risk_manager),
                         credit_analyst),
                       credit_analyst, risk_manager),
                     risk_manager)
              ELSE s0
    IN  ReturnScore(Except(s1, {"ValueError", "ZeroDivisionError", "KeyError"}))

-----------------------------------------------------------------------------
(* _assess_risk_evaluation (no exception handler of its own)                *)

IsNumber(x) == x.t = "num"

\* Python: str(x), for the element types that occur in risk_factors
PyStr(x) ==
    CASE x.t = "str"  -> x.str
      [] x.t = "null" -> <<"N", "o", "n", "e">>

\* any(word in str(risk).lower() for risk in risk_factors)
AnyMentions(word, risk_factors) ==
    \E i \in 1..Len(risk_factors) : IsSubstring(word, StrLower(PyStr(risk_factors[i])))

TierMatches(credit_score, credit_tier) ==
    \/ credit_score >= 750 /\ credit_tier = Chars["excellent"]
    \/ 700 <= credit_score /\ credit_score < 750 /\ credit_tier = Chars["good"]
    \/ 650 <= credit_score /\ credit_score < 700 /\ credit_tier = Chars["fair"]
    \/ credit_score < 650 /\ credit_tier = Chars["poor"]

RAFrame ==
    [exc |-> "", done |-> FALSE, score |-> 0,
     credit_score |-> JInt(0), credit_tier |-> <<>>, risk_factors |-> JNull,
     dti_ratio |-> R(0), risk_score_val |-> JInt(0), employment_status |-> <<>>]

\* credit_score = credit_analyst.get("credit_score", 0); tier check when numeric.
\* After the check credit_score holds int(credit_score); otherwise the raw value.
RACreditTier(s, credit_analyst) ==
    LET s1 == Assign(s, "credit_score", PyGet(credit_analyst, "credit_score", JInt(0)))
    IN  IF ~Live(s1) \/ ~IsNumber(s1.credit_score) THEN s1
        ELSE LET s2 == [s1 EXCEPT !.credit_score = JInt(RTrunc(s1.credit_score.num))]
                 s3 == Assign(s2, "credit_tier", GetLower(credit_analyst, "credit_tier"))
             IN  AddScore(s3, IF TierMatches(s3.credit_score.num.n, s3.credit_tier) THEN 30 ELSE 0)

\* risk_factors list: +0.2 when non-empty, bonuses for naming the DTI / credit risk
RARiskFactors(s, credit_analyst) ==
    LET s1 == Assign(s, "risk_factors", PyGet(credit_analyst, "risk_factors", JList(<<>>)))
    IN  IF ~Live(s1) THEN s1
        ELSE IF ~(s1.risk_factors.t = "list" /\ Len(s1.risk_factors.list) > 0) THEN s1
        ELSE LET s2 == AddScore(s1, 20)
                 s3 == Assign(s2, "dti_ratio", GetFloat(credit_analyst, "dti_ratio"))
                 s4 == AddScore(s3, IF RLt(Rat(43, 100), s3.dti_ratio)
                                       /\ AnyMentions(Chars["dti"], s3.risk_factors.list)
                                    THEN 10 ELSE 0)
             IN  IF ~Live(s4) THEN s4
                 \* credit_score < 650 with a non-numeric credit_score
                 ELSE IF ~IsNumber(s4.credit_score) THEN [s4 EXCEPT !.exc = "TypeError"]
                 ELSE AddScore(s4, IF s4.credit_score.num.n < 650
                                      /\ AnyMentions(Chars["credit"], s4.risk_factors.list)
                                   THEN 10 ELSE 0)

\* risk_score present, numeric and within [1, 10]
RARiskScore(s, credit_analyst) ==
    LET s1 == Assign(s, "risk_score_val", PyGet(credit_analyst, "risk_score", JInt(0)))
    IN  AddScore(s1, IF IsNumber(s1.risk_score_val)
                        /\ RLe(R(1), s1.risk_score_val.num) /\ RLe(s1.risk_score_val.num, R(10))
                     THEN 20 ELSE 0)

\* employment_status = loan_officer.get("employment_status", "").lower()
RAEmployment(s, loan_officer) ==
    LET s1 == Assign(s, "employment_status", GetLower(loan_officer, "employment_status"))
    IN  AddScore(s1, IF s1.employment_status # <<>> /\ s1.employment_status # Chars["unknown"]
                     THEN 10 ELSE 0)

_assess_risk_evaluation(credit_analyst, loan_officer) ==
    ReturnScore(
      RAEmployment(
        RARiskScore(
          RARiskFactors(
            RACreditTier(RAFrame, credit_analyst),
            credit_analyst),
          credit_analyst),
        loan_officer))

-----------------------------------------------------------------------------
(* _check_decision_logic                                                    *)

DLFrame ==
    [exc |-> "", done |-> FALSE, score |-> 0,
     dti_ratio |-> R(0), credit_score |-> 0, risk_assessment |-> <<>>,
     rm_decision |-> <<>>, final_upper |-> <<>>, interest_rate |-> R(0)]

\* dti_ratio, credit_score, risk_assessment, rm_decision
DLExtract(s, credit_analyst, risk_manager) ==
    Assign(Assign(Assign(Assign(s,
        "dti_ratio", GetFloat(credit_analyst, "dti_ratio")),
        "credit_score", GetInt(credit_analyst, "credit_score")),
        "risk_assessment", GetLower(credit_analyst, "risk_assessment")),
        "rm_decision", GetUpper(risk_manager, "decision"))

\* if rm_decision == final_decision.upper(): score += 0.3
DLDecisionMatch(s, final_decision) ==
    LET s1 == Assign(s, "final_upper", PyUpper(final_decision))
    IN  AddScore(s1, IF s1.rm_decision = s1.final_upper THEN 30 ELSE 0)

\* A DTI rule without the guard dti_ratio > 0
DLDtiRule_Unguarded(s, risk_manager) ==
    IF ~Live(s) THEN s
    ELSE IF ~RLt(Rat(43, 100), s.dti_ratio) THEN AddScore(s, 10)
    ELSE IF s.rm_decision = Chars["DENIED"] THEN AddScore(s, 30)
    ELSE IF s.rm_decision = Chars["APPROVED"]
    THEN LET s1 == Assign(s, "interest_rate", GetFloat(risk_manager, "interest_rate"))
         IN  AddScore(s1, IF RLt(R(12), s1.interest_rate) THEN 20 ELSE 0)
    ELSE s

\* if dti_ratio > 0: the DTI rule
DLDtiRule(s, risk_manager) ==
    IF ~Live(s) \/ ~RLt(R(0), s.dti_ratio) THEN s
    ELSE IF ~RLt(Rat(43, 100), s.dti_ratio) THEN AddScore(s, 10)
    ELSE IF s.rm_decision = Chars["DENIED"] THEN AddScore(s, 30)
    ELSE IF s.rm_decision = Chars["APPROVED"]
    THEN LET s1 == Assign(s, "interest_rate", GetFloat(risk_manager, "interest_rate"))
         IN  AddScore(s1, IF RLt(R(12), s1.interest_rate) THEN 20 ELSE 0)
    ELSE s

DLCreditRule(s) ==
    AddScore(s, IF s.credit_score < 620 /\ s.rm_decision = Chars["DENIED"] THEN 20
                ELSE IF s.credit_score >= 720 /\ s.rm_decision = Chars["APPROVED"] THEN 20
                ELSE IF 620 <= s.credit_score /\ s.credit_score < 720 THEN 10
                ELSE 0)

DLRiskRule(s) ==
    AddScore(s, IF s.risk_assessment = Chars["high"] /\ s.rm_decision = Chars["DENIED"] THEN 20
                ELSE IF s.risk_assessment = Chars["low"] /\ s.rm_decision = Chars["APPROVED"] THEN 20
                ELSE 0)

_check_decision_logic(credit_analyst, risk_manager, final_decision) ==
    LET s == DLRiskRule(
               DLCreditRule(
                 DLDtiRule(
                   DLDecisionMatch(
                     DLExtract(DLFrame, credit_analyst, risk_manager),
                     final_decision),
                   risk_manager)))
    IN  ReturnScore(Except(s, {"ValueError", "KeyError"}))

-----------------------------------------------------------------------------
(* _check_consistency                                                       *)

\* agents.items(): the values in the order the schema lists the agents
AgentOrder == <<"loan_officer", "credit_analyst", "risk_manager", "compliance">>

RECURSIVE ItemsInOrder(_, _)
ItemsInOrder(order, m) ==
    IF order = <<>> THEN <<>>
    ELSE (IF Head(order) \in DOMAIN m THEN <<m[Head(order)]>> ELSE <<>>)
         \o ItemsInOrder(Tail(order), m)

AgentItems(agents) == ItemsInOrder(AgentOrder, agents.map)

\* for agent_data in items: if key in agent_data: acc.append(float(agent_data.get(key, 0)))
RECURSIVE CollectFloats(_, _, _)
CollectFloats(items, key, acc) ==
    IF items = <<>> THEN Ok(acc)
    ELSE LET d == Head(items)
             i == PyIn(key, d)
         IN  IF i.exc # "" THEN i
             ELSE IF ~i.v THEN CollectFloats(Tail(items), key, acc)
             ELSE LET f == GetFloat(d, key)
                  IN  IF f.exc # "" THEN f
                      ELSE CollectFloats(Tail(items), key, Append(acc, f.v))

\* rec = agent_data["recommendation"].upper(), normalised by substring
RECURSIVE CollectRecommendations(_, _)
CollectRecommendations(items, acc) ==
    IF items = <<>> THEN Ok(acc)
    ELSE LET d == Head(items)
             i == PyIn("recommendation", d)
         IN  IF i.exc # "" THEN i
             ELSE IF ~i.v THEN CollectRecommendations(Tail(items), acc)
             ELSE LET x == PyIndex(d, "recommendation")
                      u == IF x.exc # "" THEN x ELSE PyUpper(x.v)
                  IN  IF u.exc # "" THEN u
                      ELSE CollectRecommendations(Tail(items),
                             IF IsSubstring(Chars["APPROV"], u.v) THEN Append(acc, "APPROVED")
                             ELSE IF IsSubstring(Chars["DENI"], u.v) \/ IsSubstring(Chars["DECLIN"], u.v)
                                  THEN Append(acc, "DENIED")
                             ELSE acc)

Range(q) == {q[i] : i \in 1..Len(q)}

\* An agreement test that needs three reported values
AllSame_NeedsThree(xs) == Cardinality(Range(xs)) = 1 /\ Len(xs) >= 3

\* len(set(xs)) == 1 and len(xs) >= 2
AllSame(xs) == Cardinality(Range(xs)) = 1 /\ Len(xs) >= 2

\* A rule whose partial credit does not need mixed recommendations
RecommendationIncrement_PartialForAny(recommendations, final_decision) ==
    IF recommendations = <<>> THEN 0
    ELSE IF Range(recommendations) = {"APPROVED"} /\ JEq(final_decision, JStr(Chars["APPROVED"])) THEN 40
    ELSE IF Range(recommendations) = {"DENIED"} /\ JEq(final_decision, JStr(Chars["DENIED"])) THEN 40
    ELSE IF Cardinality(Range(recommendations)) >= 1 THEN 20
    ELSE 0

\* if recommendations: all APPROVED / all DENIED with the decision, or mixed
RecommendationIncrement(recommendations, final_decision) ==
    IF recommendations = <<>> THEN 0
    ELSE IF Range(recommendations) = {"APPROVED"} /\ JEq(final_decision, JStr(Chars["APPROVED"])) THEN 40
    ELSE IF Range(recommendations) = {"DENIED"} /\ JEq(final_decision, JStr(Chars["DENIED"])) THEN 40
    ELSE IF Cardinality(Range(recommendations)) > 1 THEN 20
    ELSE 0

_check_consistency(agents, final_decision) ==
    IF agents.t # "map" THEN Raise("AttributeError")
    ELSE
    LET items == AgentItems(agents)
        loan_amounts == CollectFloats(items, "loan_amount", <<>>)
        incomes == CollectFloats(items, "monthly_income", <<>>)
        recommendations == CollectRecommendations(items, <<>>)
    IN  IF loan_amounts.exc # "" THEN loan_amounts
        ELSE IF incomes.exc # "" THEN incomes
        ELSE IF recommendations.exc # "" THEN recommendations
        ELSE Ok(Min((IF AllSame(loan_amounts.v) THEN 30 ELSE 0)
                    + (IF AllSame(incomes.v) THEN 30 ELSE 0)
                    + RecommendationIncrement(recommendations.v, final_decision), 100))

-----------------------------------------------------------------------------
(* Response text.  A text is a sequence of lexical tokens: a ```json fence, *)
(* a bare ``` fence, whitespace, the text of one JSON value, or characters  *)
(* that are not JSON.                                                       *)

TFenceJson == [k |-> "fence_json", v |-> JNull]
TFence     == [k |-> "fence", v |-> JNull]
TWs        == [k |-> "ws", v |-> JNull]
TJunk      == [k |-> "junk", v |-> JNull]
TJson(x)   == [k |-> "json", v |-> x]

\* re.sub(r'```json\s*', '', text): drop every ```json and the whitespace after it
RECURSIVE StripOpeningFences(_, _)
StripOpeningFences(tokens, dropping) ==
    IF tokens = <<>> THEN <<>>
    ELSE IF Head(tokens).k = "fence_json" THEN StripOpeningFences(Tail(tokens), TRUE)
    ELSE IF Head(tokens).k = "ws" /\ dropping THEN StripOpeningFences(Tail(tokens), TRUE)
    ELSE <<Head(tokens)>> \o StripOpeningFences(Tail(tokens), FALSE)

RECURSIVE StripTrailingWs(_)
StripTrailingWs(tokens) ==
    IF tokens # <<>> /\ tokens[Len(tokens)].k = "ws"
    THEN StripTrailingWs(SubSeq(tokens, 1, Len(tokens) - 1))
    ELSE tokens

RECURSIVE StripLeadingWs(_)
StripLeadingWs(tokens) ==
    IF tokens # <<>> /\ Head(tokens).k = "ws" THEN StripLeadingWs(Tail(tokens)) ELSE tokens

\* re.sub(r'```\s*$', '', text): drop a final ``` together with the whitespace after it
StripClosingFence(tokens) ==
    LET core == StripTrailingWs(tokens)
    IN  IF core # <<>> /\ core[Len(core)].k = "fence"
        THEN SubSeq(core, 1, Len(core) - 1)
        ELSE tokens

\* json.loads(text): exactly one JSON value between optional whitespace
JsonLoads(tokens) ==
    LET core == StripLeadingWs(StripTrailingWs(tokens))
    IN  IF Len(core) = 1 /\ core[1].k = "json" THEN Ok(core[1].v)
        ELSE Raise("JSONDecodeError")

\* The parse step of __call__
ParseResponse(response) ==
    IF response.t = "text"
    THEN JsonLoads(StripClosingFence(StripOpeningFences(response.text, FALSE)))
    ELSE Ok(response)

-----------------------------------------------------------------------------
(* __call__                                                                 *)

\* A reward scale whose Fair and Good entries are exchanged: not monotone
reward_scale_FairAboveGood == <<0, 1500, 4000, 3000, 10000>>

\* self.reward_scale, in ten-thousandths
reward_scale == <<0, 1500, 3000, 4000, 10000>>

\* A banding whose Excellent threshold is strict (> 0.90 instead of >= 0.90)
RewardClass_StrictExcellent(final_score) ==
    IF final_score > 9000 THEN 5
    ELSE IF final_score >= 7500 THEN 4
    ELSE IF final_score >= 6000 THEN 3
    ELSE IF final_score >= 4000 THEN 2
    ELSE 1

\* The band of a raw weighted score (ten-thousandths), highest threshold first
RewardClass(final_score) ==
    IF final_score >= 9000 THEN 5
    ELSE IF final_score >= 7500 THEN 4
    ELSE IF final_score >= 6000 THEN 3
    ELSE IF final_score >= 4000 THEN 2
    ELSE 1

\* max(0.0, min(1.0, final_reward + noise))
Clamp(x) == Max(0, Min(10000, x))

ZeroComponents ==
    [structure |-> 0, calculations |-> 0, risk_assessment |-> 0,
     decision_logic |-> 0, consistency |-> 0]

\* sum(score_components.values())
SumComponents(c) ==
    c.structure + c.calculations + c.risk_assessment + c.decision_logic + c.consistency

PyFloatValue(x) == [t |-> "float", float |-> x]
PyDictValue(d)  == [t |-> "dict", dict |-> d]
NoValue         == [t |-> "none"]

\* What a call leaves behind: the returned object (or the escaped exception),
\* the return_dict argument and the intermediate values of the run.
Outcome(path, exc, value, return_dict, structure_score, components, final_score, reward_class, noise) ==
    [path |-> path, exc |-> exc, value |-> value, return_dict |-> return_dict,
     structure_score |-> structure_score, components |-> components,
     final_score |-> final_score, reward_class |-> reward_class, noise |-> noise]

\* A handler whose except clause leaves out json.JSONDecodeError
Handler_WithoutJSONDecodeError(exc, return_dict) ==
    IF exc \in {"KeyError", "TypeError"}
    THEN Outcome("error", exc,
                 IF return_dict THEN PyDictValue([reward |-> 0]) ELSE PyFloatValue(0),
                 return_dict, -1, ZeroComponents, -1, 0, 0)
    ELSE Outcome("escaped", exc, NoValue, return_dict, -1, ZeroComponents, -1, 0, 0)

\* except (json.JSONDecodeError, KeyError, TypeError): return 0.0 or {"reward": 0.0};
\* any other exception leaves __call__
Handler(exc, return_dict) ==
    IF exc \in {"JSONDecodeError", "KeyError", "TypeError"}
    THEN Outcome("error", exc,
                 IF return_dict THEN PyDictValue([reward |-> 0]) ELSE PyFloatValue(0),
                 return_dict, -1, ZeroComponents, -1, 0, 0)
    ELSE Outcome("escaped", exc, NoValue, return_dict, -1, ZeroComponents, -1, 0, 0)

\* An early exit that returns the structure score without its 0.2 weight
EarlyExit_Unweighted(structure_score, return_dict) ==
    LET score_components == [ZeroComponents EXCEPT !.structure = structure_score * 100]
        final_score == SumComponents(score_components)
    IN  Outcome("gated", "",
                IF return_dict THEN PyDictValue(score_components)
                ELSE PyFloatValue(final_score),
                return_dict, structure_score, score_components, final_score, 0, 0)

\* Early exit for invalid structure
EarlyExit(structure_score, return_dict) ==
    LET score_components == [ZeroComponents EXCEPT !.structure = structure_score * 20]
        final_score == SumComponents(score_components)
    IN  Outcome("gated", "",
                IF return_dict THEN PyDictValue(score_components)
                ELSE PyFloatValue(final_score),
                return_dict, structure_score, score_components, final_score, 0, 0)

\* Banding, noise and clamping of a fully scored response
Banded(structure_score, score_components, return_dict, noise) ==
    LET final_score  == SumComponents(score_components)
        reward_class == RewardClass(final_score)
        final_reward == Clamp(reward_scale[reward_class] + noise)
    IN  Outcome("banded", "",
                IF return_dict THEN PyDictValue([reward |-> final_reward])
                ELSE PyFloatValue(final_reward),
                return_dict, structure_score, score_components, final_score, reward_class, noise)

\* Steps 2 to 5 of __call__: the four scorers after the gate, in order
ScoreAgents(response_data, structure_score, return_dict, noise) ==
    LET agents == PyGet(response_data, "agent_outputs", EmptyMap)
        loan_officer   == PyGet(agents.v, "loan_officer", EmptyMap)
        credit_analyst == PyGet(agents.v, "credit_analyst", EmptyMap)
        risk_manager   == PyGet(agents.v, "risk_manager", EmptyMap)
        final_decision == PyGet(response_data, "decision", JStr(<<>>))
        calc_score == _verify_calculations(loan_officer.v, credit_analyst.v, risk_manager.v)
        risk_score == _assess_risk_evaluation(credit_analyst.v, loan_officer.v)
        decision_score == _check_decision_logic(credit_analyst.v, risk_manager.v, final_decision.v)
        consistency_score == _check_consistency(agents.v, final_decision.v)
    IN  IF agents.exc # "" THEN Handler(agents.exc, return_dict)
        ELSE IF loan_officer.exc # "" THEN Handler(loan_officer.exc, return_dict)
        ELSE IF calc_score.exc # "" THEN Handler(calc_score.exc, return_dict)
        ELSE IF risk_score.exc # "" THEN Handler(risk_score.exc, return_dict)
        ELSE IF decision_score.exc # "" THEN Handler(decision_score.exc, return_dict)
        ELSE IF consistency_score.exc # "" THEN Handler(consistency_score.exc, return_dict)
        ELSE Banded(structure_score,
                    [structure       |-> structure_score * 20,
                     calculations    |-> calc_score.v * 25,
                     risk_assessment |-> risk_score.v * 20,
                     decision_logic  |-> decision_score.v * 20,
                     consistency     |-> consistency_score.v * 15],
                    return_dict, noise)

\* LoanUnderwritingReward.__call__(response, return_dict=...), with the value
\* drawn by random.uniform(-0.02, 0.02) passed in as noise
__call__(response, return_dict, noise) ==
    LET parsed == ParseResponse(response)
    IN  IF parsed.exc # "" THEN Handler(parsed.exc, return_dict)
        ELSE LET structure == _check_structure(parsed.v)
             IN  IF structure.exc # "" THEN Handler(structure.exc, return_dict)
                 ELSE IF structure.v < 50 THEN EarlyExit(structure.v, return_dict)
                 ELSE ScoreAgents(parsed.v, structure.v, return_dict, noise)

-----------------------------------------------------------------------------
(* Responses submitted for scoring.                                         *)

MapSet(m, k, val) == JMap((k :> val) @@ m.map)
MapDel(m, k) == JMap([x \in (DOMAIN m.map) \ {k} |-> m.map[x]])
MapKeep(m, keys) == JMap([x \in (DOMAIN m.map) \cap keys |-> m.map[x]])

Agents(env) == env.map["agent_outputs"]
SetAgent(env, a, val) == MapSet(env, "agent_outputs", MapSet(Agents(env), a, val))
DelAgent(env, a) == MapSet(env, "agent_outputs", MapDel(Agents(env), a))
SetField(env, a, f, val) == SetAgent(env, a, MapSet(Agents(env).map[a], f, val))
DelField(env, a, f) == SetAgent(env, a, MapDel(Agents(env).map[a], f))

\* A response that follows the schema of the workflow prompt: all figures are
\* consistent across agents, payment and DTI are the recomputed ones (to two
\* decimals) and every recommendation agrees with the decision.
Schema(credit_score, credit_tier, risk, rate, debts, dti, payment, decision, rec, factors) ==
    JMap([trajectory_id |-> JStr(Chars["t1"]),
          agent_outputs |-> JMap(
            [loan_officer |-> JMap(
               [employment_status |-> JStr(Chars["employed"]),
                monthly_income |-> JInt(100),
                monthly_debts |-> JInt(debts),
                loan_amount |-> JInt(20),
                recommendation |-> JStr(rec)]),
             credit_analyst |-> JMap(
               [credit_score |-> JInt(credit_score),
                credit_tier |-> JStr(credit_tier),
                dti_ratio |-> JNum(dti),
                monthly_income |-> JInt(100),
                monthly_debts |-> JInt(debts),
                risk_factors |-> JList(factors),
                risk_score |-> JInt(3),
                risk_assessment |-> JStr(risk),
                recommendation |-> JStr(rec)]),
             risk_manager |-> JMap(
               [decision |-> JStr(decision),
                interest_rate |-> JInt(rate),
                loan_amount |-> JInt(20),
                term_months |-> JInt(1),
                monthly_payment |-> JNum(payment)])]),
          decision |-> JStr(decision)])

\* loan 20 at 6% for one month: payment 20.10, DTI (20 + 20.10) / 100
LowRisk ==
    Schema(760, Chars["excellent"], Chars["low"], 6, 20, Rat(40, 100), Rat(2010, 100),
           Chars["APPROVED"], Chars["Approve"], <<JStr(Chars["stable job"])>>)
\* loan 20 at 10% for one month: payment 20.17, DTI 0.40
MediumRisk ==
    Schema(700, Chars["good"], Chars["medium"], 10, 20, Rat(40, 100), Rat(2017, 100),
           Chars["APPROVED"], Chars["Approve"], <<JStr(Chars["stable job"])>>)
\* loan 20 at 15% for one month: payment 20.25, debts 30, DTI 0.50
HighRisk ==
    Schema(600, Chars["poor"], Chars["high"], 15, 30, Rat(50, 100), Rat(2025, 100),
           Chars["DENIED"], Chars["Decline"], <<JStr(Chars["high dti"]), JStr(Chars["low credit score"])>>)
\* the low-risk loan over two months: payment 10.08, DTI 0.30
LowRiskTwoMonths ==
    SetField(SetField(SetField(LowRisk,
        "risk_manager", "term_months", JInt(2)),
        "risk_manager", "monthly_payment", JNum(Rat(1008, 100))),
        "credit_analyst", "dti_ratio", JNum(Rat(30, 100)))

Profiles == {LowRisk, MediumRisk, HighRisk, LowRiskTwoMonths}

\* Every (agent, field) pair of the schema
AgentFields ==
    UNION {{<<a, f>> : f \in DOMAIN Agents(LowRisk).map[a].map} : a \in DOMAIN Agents(LowRisk).map}

\* Values that are missing or of the wrong type for a field
BadValues == {JStr(Chars["abc"]), JStr(Chars["2"]), JNull, JInt(0)}

\* One field of a schema response removed or replaced
OneFieldOff(env) ==
    {DelField(env, p[1], p[2]) : p \in AgentFields}
    \cup {SetField(env, p[1], p[2], b) : p \in AgentFields, b \in BadValues}

\* Reported figures that are off, and decisions that disagree
Misreported ==
    {SetField(LowRisk, "credit_analyst", "dti_ratio", JNum(Rat(47, 100))),
     SetField(LowRisk, "credit_analyst", "dti_ratio", JNum(Rat(90, 100))),
     SetField(LowRisk, "credit_analyst", "dti_ratio", JStr(Chars["0.4"])),
     SetField(LowRisk, "risk_manager", "interest_rate", JInt(20)),
     SetField(LowRisk, "risk_manager", "term_months", JInt(-1)),
     SetField(LowRisk, "risk_manager", "monthly_payment", JInt(30)),
     SetField(LowRisk, "risk_manager", "loan_amount", JInt(25)),
     SetField(LowRisk, "risk_manager", "decision", JStr(Chars["DENIED"])),
     SetField(LowRisk, "loan_officer", "recommendation", JStr(Chars["Decline"])),
     SetField(LowRisk, "loan_officer", "employment_status", JStr(Chars["unknown"])),
     SetField(LowRisk, "credit_analyst", "credit_tier", JStr(Chars["good"])),
     SetField(LowRisk, "credit_analyst", "risk_assessment", JStr(Chars["Low"])),
     SetField(LowRisk, "credit_analyst", "risk_factors", JList(<<>>)),
     SetField(HighRisk, "risk_manager", "decision", JStr(Chars["APPROVED"])),
     SetField(HighRisk, "credit_analyst", "credit_score", JStr(Chars["abc"])),
     SetField(HighRisk, "credit_analyst", "dti_ratio", JStr(Chars["abc"])),
     MapSet(LowRisk, "decision", JStr(Chars["approved"])),
     MapSet(LowRisk, "decision", JStr(Chars["DENIED"])),
     MapSet(LowRisk, "decision", JInt(1)),
     MapSet(LowRisk, "decision", JNull),
     MapDel(LowRisk, "decision"),
     MapDel(LowRisk, "trajectory_id")}

\* Agent entries and agent_outputs of the wrong shape
Misshaped ==
    {SetAgent(LowRisk, a, b) : a \in DOMAIN Agents(LowRisk).map,
                               b \in {JNull, JList(<<>>), JStr(Chars["abc"]), JInt(0)}}
    \cup {SetAgent(LowRisk, "compliance", JMap([loan_amount |-> JStr(Chars["abc"])])),
          SetAgent(LowRisk, "risk_manager",
                   JList(<<JStr(Chars["interest_rate"]), JStr(Chars["term_months"])>>)),
          SetAgent(LowRisk, "loan_officer",
                   JList(<<JStr(Chars["monthly_income"]), JStr(Chars["monthly_debts"]),
                           JStr(Chars["loan_amount"])>>))}
    \cup {MapSet(LowRisk, "agent_outputs", b) :
            b \in {JNull, JList(<<>>), JInt(0), JStr(Chars["abc"]),
                   JList(<<JStr(Chars["loan_officer"])>>)}}

\* Envelopes that keep only some top-level fields and some agents
Sparse ==
    {MapKeep(MapSet(LowRisk, "agent_outputs", MapKeep(Agents(LowRisk), as)), top) :
        as \in SUBSET {"loan_officer", "credit_analyst", "risk_manager"},
        top \in {t \in SUBSET {"agent_outputs", "decision", "trajectory_id"} :
                   "agent_outputs" \in t}}
    \cup {MapKeep(LowRisk, top) : top \in SUBSET {"decision", "trajectory_id"}}

\* The low-risk response (recomputed DTI 0.401) with other reported DTIs, and
\* a response whose recomputed DTI is 0.41 and reported DTI 0.40
ReportedDtis ==
    {Rat(-5, 100), R(0), Rat(30, 100), Rat(34, 100), Rat(40, 100), Rat(44, 100),
     Rat(47, 100), Rat(52, 100), Rat(90, 100)}
WithDti(env, d) == SetField(env, "credit_analyst", "dti_ratio", JNum(d))
WithDebts(env, d) ==
    SetField(SetField(env, "loan_officer", "monthly_debts", JNum(d)),
             "credit_analyst", "monthly_debts", JNum(d))
DtiReports ==
    {WithDti(LowRisk, d) : d \in ReportedDtis} \cup {WithDebts(LowRisk, Rat(209, 10))}

\* Responses whose payment cannot be recomputed and that report no payment
Unverifiable ==
    {DelField(SetField(LowRisk, "risk_manager", f, JInt(v)), "risk_manager", "monthly_payment") :
        f \in {"interest_rate", "term_months"}, v \in {-1, 0}}
    \cup {DelField(DelField(LowRisk, "risk_manager", f), "risk_manager", "monthly_payment") :
        f \in {"interest_rate", "term_months"}}

\* Responses whose two recommendations are both replaced or both left out
WithRecommendations(env, lo, ca) ==
    SetField(SetField(env, "loan_officer", "recommendation", JStr(lo)),
             "credit_analyst", "recommendation", JStr(ca))
Recommended ==
    {WithRecommendations(env, Chars[lo], Chars[ca]) :
        env \in {LowRisk, MapSet(LowRisk, "decision", JStr(Chars["DENIED"]))},
        lo \in {"Approve", "Decline", "Review"}, ca \in {"Decline", "Review"}}
    \cup {DelField(DelField(LowRisk, "loan_officer", "recommendation"),
                   "credit_analyst", "recommendation")}

Envelopes ==
    Profiles \cup OneFieldOff(LowRisk) \cup Misreported \cup Misshaped \cup Sparse
    \cup DtiReports \cup Unverifiable \cup Recommended

\* Structured objects that are not mappings
NonMappings ==
    {JNull, JInt(5), JList(<<>>),
     JList(<<JStr(Chars["agent_outputs"]), JStr(Chars["decision"]),
             JStr(Chars["trajectory_id"])>>)}

PyText(tokens) == [t |-> "text", text |-> tokens]

Texts ==
    {PyText(<<TJson(LowRisk)>>),
     PyText(<<TFenceJson, TWs, TJson(LowRisk), TWs, TFence, TWs>>),
     PyText(<<TFenceJson, TJson(MapKeep(LowRisk, {"decision", "trajectory_id"})), TFence>>),
     PyText(<<TFence, TWs, TJson(LowRisk), TWs, TFence>>),
     PyText(<<TJson(LowRisk), TJunk>>),
     PyText(<<TJunk>>),
     PyText(<<>>),
     PyText(<<TJson(JStr(Chars["abc"]))>>),
     PyText(<<TJson(JStr(Chars["agent_outputs"]))>>),
     PyText(<<TWs, TJson(JList(<<>>))>>),
     PyText(<<TJson(JInt(5))>>),
     PyText(<<TJson(JNull)>>)}

Responses == Envelopes \cup NonMappings \cup Texts

\* The responses in a fixed order: a response is referred to by its position
\* in ResponseList. The families are listed one after the other and their
\* elements taken six at a time, which keeps the recursion shallow
Families ==
    <<Profiles, Misreported, Misshaped, Sparse, DtiReports, Unverifiable, Recommended,
      NonMappings, Texts, OneFieldOff(LowRisk)>>
RECURSIVE Enumerate(_)
Enumerate(S) ==
    IF S = {} THEN <<>>
    ELSE LET a == CHOOSE y \in S : TRUE
             A == S \ {a}
         IN  IF A = {} THEN <<a>>
    ELSE LET b == CHOOSE y \in A : TRUE
             B == A \ {b}
         IN  IF B = {} THEN <<a, b>>
    ELSE LET c == CHOOSE y \in B : TRUE
             C == B \ {c}
         IN  IF C = {} THEN <<a, b, c>>
    ELSE LET d == CHOOSE y \in C : TRUE
             D == C \ {d}
         IN  IF D = {} THEN <<a, b, c, d>>
    ELSE LET e == CHOOSE y \in D : TRUE
             E == D \ {e}
         IN  IF E = {} THEN <<a, b, c, d, e>>
    ELSE LET f == CHOOSE y \in E : TRUE
         IN  <<a, b, c, d, e, f>> \o Enumerate(E \ {f})
RECURSIVE Listed(_)
Listed(n) ==
    IF n = 0 THEN <<>>
    ELSE LET listed == Listed(n - 1) IN listed \o Enumerate(Families[n] \ Range(listed))
ResponseList == Listed(Len(Families))
IndexOf(r) == CHOOSE i \in DOMAIN ResponseList : ResponseList[i] = r

\* A noise of amplitude 0.03
NoiseValues_Wide == {-300, 0, 300}

\* Values of random.uniform(-0.02, 0.02), in ten-thousandths
NoiseValues == {-200, 0, 200}

-----------------------------------------------------------------------------
(* The scorer as a state machine: a response is submitted and scored, at    *)
(* most MaxCalls times, then the next response is submitted. current is the  *)
(* position in ResponseList of the response being scored.                    *)

MaxCalls == 2

VARIABLES current, result, previous, other, calls
\* The batch: the generator of the random module, the mode of the tasks and
\* the workflow runs of the worker threads. The data reader under construction
VARIABLES generator, is_eval, runs, reader
vars == <<current, result, previous, other, calls, generator, is_eval, runs, reader>>

NoCall == Outcome("none", "", NoValue, FALSE, -1, ZeroComponents, -1, 0, 0)

\* The scalar a caller takes from a returned object
\* (workflow: reward.get('reward', sum(reward.values())))
RewardOf(value) ==
    IF value.t = "float" THEN value.float
    ELSE IF "reward" \in DOMAIN value.dict THEN value.dict["reward"]
    ELSE SumComponents(value.dict)

\* The reward before noise: the band's base reward, the structure
\* contribution of a gated response, 0.0 from the exception handler
PreNoise(o) ==
    IF o.path = "banded" THEN reward_scale[o.reward_class]
    ELSE IF o.path = "gated" THEN o.final_score
    ELSE 0

Returned(o) == o.path \in {"error", "gated", "banded"}

\* What is remembered of the call before this one on the same response
Earlier(o) == [path |-> o.path, reward |-> IF Returned(o) THEN RewardOf(o.value) ELSE -1]
\* What is remembered of the last call on the response scored before this one
Digest(o) == [path |-> o.path, final_score |-> o.final_score, pre_noise |-> PreNoise(o)]

\* A function with every value computed
Tabulated(f) == f @@ <<>>

\* Every call the model can make, evaluated once
Outcomes ==
    Tabulated([i \in DOMAIN ResponseList |->
      Tabulated([return_dict \in BOOLEAN |->
        Tabulated([noise \in NoiseValues |-> __call__(ResponseList[i], return_dict, noise)])])])

Init ==
    /\ current \in DOMAIN ResponseList
    /\ result = NoCall
    /\ previous = Earlier(NoCall)
    /\ other = Digest(NoCall)
    /\ calls = 0
    /\ generator = 0
    /\ is_eval = FALSE
    /\ runs = <<>>
    /\ reader = <<>>

\* reward_fn(response, return_dict=...) on the current response
Call(return_dict, noise) ==
    /\ calls < MaxCalls
    /\ result' = Outcomes[current][return_dict][noise]
    /\ previous' = Earlier(result)
    /\ calls' = calls + 1
    /\ UNCHANGED <<current, other, generator, is_eval, runs, reader>>

\* The next response of the batch is taken up: the workflow scores each
\* response once and moves on
Submit(i) ==
    /\ calls = 1
    /\ other = Digest(NoCall)
    /\ other' = Digest(result)
    /\ current' = i
    /\ result' = NoCall
    /\ previous' = Earlier(NoCall)
    /\ calls' = 0
    /\ UNCHANGED <<generator, is_eval, runs, reader>>

Next ==
    \/ \E return_dict \in BOOLEAN, noise \in NoiseValues : Call(return_dict, noise)
    \/ \E i \in DOMAIN ResponseList : Submit(i)

Spec == Init /\ [][Next]_vars

-----------------------------------------------------------------------------
(* The batch: worker threads of one process each run                         *)
(* LoanUnderwritingWorkflow.run on the experiences of their task and call    *)
(* the reward function, whose noise comes from the generator of the random   *)
(* module, one generator for the whole process.                              *)

Workers == {"w1", "w2"}
MaxExperiences == 2

\* The response texts the model returns for a task: a schema response, a
\* fenced envelope without agent_outputs, a text that is not JSON and a JSON
\* string
ModelOutputs ==
    {IndexOf(PyText(<<TJson(LowRisk)>>)),
     IndexOf(PyText(<<TFenceJson, TJson(MapKeep(LowRisk, {"decision", "trajectory_id"})), TFence>>)),
     IndexOf(PyText(<<TJunk>>)),
     IndexOf(PyText(<<TJson(JStr(Chars["abc"]))>>))}

\* random.uniform(-0.02, 0.02): the value drawn from the generator in state g
\* and the state it leaves the generator in
uniform(g) ==
    LET stream == <<200, -200, 0>>
    IN  [noise |-> stream[g + 1], state |-> (g + 1) % Len(stream)]

\* reward_fn(response, return_dict) called by a thread while the generator is
\* in state g, scored being the outcomes of the call for each noise: only a
\* response that reaches the bands draws the noise
reward_fn(scored, g) ==
    IF scored[0].path = "banded"
    THEN [outcome |-> scored[uniform(g).noise], state |-> uniform(g).state, drew |-> TRUE]
    ELSE [outcome |-> scored[0], state |-> g, drew |-> FALSE]

\* A loop body whose except clause sets the reward but never the metrics
Experience_ExceptWithoutMetrics(i, o, eval) ==
    IF Returned(o)
    THEN [response |-> i, noise |-> o.noise, reward |-> RewardOf(o.value),
          metrics |-> IF o.value.t = "dict" THEN o.value ELSE NoValue]
    ELSE [response |-> i, noise |-> o.noise, reward |-> 0, metrics |-> NoValue]

\* The experience after the body of the loop of run: the reward and the metrics
\* set from the returned object, or by the except clause
Experience(i, o, eval) ==
    IF Returned(o)
    THEN [response |-> i, noise |-> o.noise, reward |-> RewardOf(o.value),
          metrics |-> IF o.value.t = "dict" THEN o.value ELSE NoValue]
    ELSE [response |-> i, noise |-> o.noise, reward |-> 0,
          metrics |-> IF eval THEN PyDictValue([reward |-> 0]) ELSE NoValue]

InitBatch ==
    /\ generator = 0
    /\ is_eval \in BOOLEAN
    /\ runs = [w \in Workers |-> [experiences |-> <<>>, shared |-> {}]]
    /\ current = 1
    /\ result = NoCall
    /\ previous = Earlier(NoCall)
    /\ other = Digest(NoCall)
    /\ calls = 0
    /\ reader = <<>>

\* One pass of the loop of run in thread w, on an experience whose
\* response_text is response i. shared collects the process-wide variables the
\* calls of the thread have read or written
run(w, i) ==
    /\ Len(runs[w].experiences) < MaxExperiences
    /\ \E call \in {reward_fn(Outcomes[i][is_eval], generator)} :
          /\ generator' = call.state
          /\ runs' = [runs EXCEPT ![w] =
                        [experiences |-> Append(@.experiences, Experience(i, call.outcome, is_eval)),
                         shared |-> @.shared \cup (IF call.drew THEN {"random._inst"} ELSE {})]]
    /\ UNCHANGED <<current, result, previous, other, calls, is_eval, reader>>

NextBatch == \E w \in Workers, i \in ModelOutputs : run(w, i)

Batch == InitBatch /\ [][NextBatch]_vars

-----------------------------------------------------------------------------
(* The construction of LoanUnderwritingDataReader: __init__ loads the raw    *)
(* dataset, preprocesses it, and assigns the rest of its attributes.         *)

MaxSamples == 2

\* The raw datasets: each sample has a prompt and either a list of candidate
\* responses, each with or without a reward, or a single response
Datasets ==
    LET candidates ==
            {[response |-> "a", has_reward |-> TRUE, reward |-> 1],
             [response |-> "b", has_reward |-> TRUE, reward |-> 4],
             [response |-> "c", has_reward |-> TRUE, reward |-> 4],
             [response |-> "d", has_reward |-> FALSE, reward |-> 0]}
        lists == UNION {[1..n -> candidates] : n \in 0..2}
        samples ==
            {[prompt |-> "p", is_list |-> TRUE, responses |-> l, response |-> "", reward |-> 0] :
                l \in lists}
            \cup {[prompt |-> "p", is_list |-> FALSE, responses |-> <<>>, response |-> "s",
                   reward |-> 3]}
    IN  UNION {[1..n -> samples] : n \in 0..MaxSamples}

\* _preprocess_dataset(dataset) run while the attributes in assigned exist on
\* self: the exception it raises ("" when none) and the processed samples
RECURSIVE _preprocess_dataset(_, _)
_preprocess_dataset(assigned, dataset) ==
    IF dataset = <<>> THEN [exc |-> "", processed |-> <<>>]
    ELSE IF "prompt_key" \notin assigned \/ "response_key" \notin assigned
    THEN [exc |-> "AttributeError", processed |-> <<>>]
    ELSE
      LET sample == Head(dataset)
          responses == sample.responses
          key(k) == IF responses[k].has_reward THEN responses[k].reward ELSE 0
          \* max(responses, key=...): the first response with the largest key
          best == CHOOSE k \in 1..Len(responses) :
                    /\ \A j \in 1..Len(responses) : key(j) <= key(k)
                    /\ \A j \in 1..(k - 1) : key(j) < key(k)
          rest == _preprocess_dataset(assigned, Tail(dataset))
      IN  IF sample.is_list /\ responses # <<>> /\ ~responses[best].has_reward
          THEN [exc |-> "KeyError", processed |-> <<>>]
          ELSE IF rest.exc # "" THEN rest
          ELSE [exc |-> "",
                processed |->
                  <<IF sample.is_list /\ responses # <<>>
                    THEN [prompt |-> sample.prompt, response |-> responses[best].response,
                          reward |-> responses[best].reward, all_responses |-> responses]
                    ELSE IF sample.is_list
                    THEN [prompt |-> sample.prompt, response |-> "", reward |-> 0,
                          all_responses |-> <<>>]
                    ELSE [prompt |-> sample.prompt, response |-> sample.response,
                          reward |-> sample.reward, all_responses |-> <<>>]>>
                  \o rest.processed]

\* __init__ after lines 33-43: meta and split assigned, the raw dataset loaded
InitReader ==
    /\ reader \in {[pc |-> "loaded", dataset |-> d, assigned |-> {"meta", "split"},
                    exc |-> "", processed |-> <<>>] : d \in Datasets}
    /\ current = 1
    /\ result = NoCall
    /\ previous = Earlier(NoCall)
    /\ other = Digest(NoCall)
    /\ calls = 0
    /\ generator = 0
    /\ is_eval = FALSE
    /\ runs = <<>>

\* Line 46: processed_dataset = self._preprocess_dataset(raw_dataset); an
\* exception leaves __init__
preprocess ==
    /\ reader.pc = "loaded"
    /\ LET done == _preprocess_dataset(reader.assigned, reader.dataset)
       IN  reader' = [reader EXCEPT !.pc = IF done.exc = "" THEN "preprocessed" ELSE "raised",
                                    !.exc = done.exc,
                                    !.processed = done.processed]
    /\ UNCHANGED <<current, result, previous, other, calls, generator, is_eval, runs>>

\* Lines 49-67: the batch reader is created and the other attributes assigned
finish ==
    /\ reader.pc = "preprocessed"
    /\ reader' = [reader EXCEPT !.pc = "constructed",
                                !.assigned = @ \cup {"dataset", "read_batch_size", "prompt_key",
                                                     "response_key", "workflow_key",
                                                     "reward_fn_key", "task_type",
                                                     "default_workflow_cls",
                                                     "default_reward_fn_cls"}]
    /\ UNCHANGED <<current, result, previous, other, calls, generator, is_eval, runs>>

NextReader == preprocess \/ finish

Reader == InitReader /\ [][NextReader]_vars

-----------------------------------------------------------------------------
(* Properties                                                               *)

Called == result.path # "none"

\* The response being scored
Submitted == ResponseList[current]


\* The parsed envelope of the current response, when it has one
ParsedOk(r) == ParseResponse(r).exc = ""
Parsed(r) == ParseResponse(r).v

\* C1: with return_dict=False every call returns a number r, 0.0 <= r <= 1.0
C1_RewardWithinUnitInterval ==
    (Called /\ ~result.return_dict) =>
        /\ result.value.t = "float"
        /\ result.value.float \in 0..10000

\* C2: no exception leaves score; every call ends by returning a reward
C2_NoExceptionEscapes ==
    Called => Returned(result)

\* C3: a text that parses to a value that is not a mapping scores exactly 0.0
C3_NonMappingScoresZero ==
    (Called /\ Submitted.t = "text" /\ ParsedOk(Submitted) /\ Parsed(Submitted).t # "map") =>
        /\ result.path = "error"
        /\ RewardOf(result.value) = 0

\* C4: a text that is not parseable scores exactly 0.0 (or {"reward": 0.0}),
\* with no noise and no scorer evaluated
C4_UnparseableTextScoresZero ==
    (Called /\ Submitted.t = "text" /\ ~ParsedOk(Submitted)) =>
        /\ result.path = "error"
        /\ result.value = (IF result.return_dict THEN PyDictValue([reward |-> 0])
                           ELSE PyFloatValue(0))
        /\ result.noise = 0
        /\ result.structure_score = -1
        /\ result.components = ZeroComponents
C4_Witness ==
    /\ Called
    /\ Submitted = PyText(<<TFence, TWs, TJson(LowRisk), TWs, TFence>>)
    /\ result.return_dict
    /\ result.value = PyDictValue([reward |-> 0])

\* Numeric fields of the schema and values of the wrong type for them
NumericFields ==
    {<<"loan_officer", "monthly_income">>, <<"loan_officer", "monthly_debts">>,
     <<"loan_officer", "loan_amount">>, <<"credit_analyst", "credit_score">>,
     <<"credit_analyst", "dti_ratio">>, <<"credit_analyst", "risk_score">>,
     <<"risk_manager", "interest_rate">>, <<"risk_manager", "term_months">>,
     <<"risk_manager", "monthly_payment">>}
WrongTyped == {JStr(Chars["abc"]), JNull}

\* C5: a wrong-typed value in one agent field forfeits only the increments of
\* that field: the response is scored, with the raw weighted score it would
\* have if the field were absent
C5_BadFieldForfeitsOnlyItsIncrements ==
    \A p \in NumericFields, b \in WrongTyped :
        (Called /\ Submitted = SetField(LowRisk, p[1], p[2], b)) =>
            /\ result.path = "banded"
            /\ result.final_score =
                 __call__(DelField(LowRisk, p[1], p[2]), FALSE, 0).final_score

\* C6: with return_dict=True the returned mapping has the single key "reward"
C6_DictHasOnlyRewardKey ==
    (Called /\ result.return_dict /\ Returned(result)) =>
        /\ result.value.t = "dict"
        /\ DOMAIN result.value.dict = {"reward"}

\* C7: a mapping-shaped envelope whose structure score is below 0.5 is gated:
\* the reward is 0.2 times the structure score, at most 0.2, without noise,
\* and the other four components are 0
StructureOf(r) == _check_structure(Parsed(r))
BelowGate(r) ==
    /\ ParsedOk(r)
    /\ Parsed(r).t = "map"
    /\ StructureOf(r).exc = ""
    /\ StructureOf(r).v < 50
C7_GateStopsEvaluation ==
    (Called /\ BelowGate(Submitted)) =>
        /\ result.path = "gated"
        /\ RewardOf(result.value) = 20 * StructureOf(Submitted).v
        /\ RewardOf(result.value) <= 2000
        /\ result.noise = 0
        /\ result.components.calculations = 0
        /\ result.components.risk_assessment = 0
        /\ result.components.decision_logic = 0
        /\ result.components.consistency = 0
C7_Witness ==
    /\ Called
    /\ BelowGate(Submitted)
    /\ "agent_outputs" \in DOMAIN Parsed(Submitted).map
    /\ result.structure_score = 43
    /\ RewardOf(result.value) = 860

\* C8 (as stated): two calls on the same input differ by at most 0.02
BothReturned == calls >= 2 /\ Returned(result) /\ previous.path \in {"error", "gated", "banded"}
C8_TwoCallsWithinNoiseBand ==
    BothReturned => IAbs(RewardOf(result.value) - previous.reward) <= 200
\* C8 (amended): two rewards returned for the same input differ by at most
\* 0.04, twice the noise amplitude
C8_TwoCallsWithinTwiceNoise ==
    BothReturned => IAbs(RewardOf(result.value) - previous.reward) <= 400
C8_Witness ==
    /\ BothReturned
    /\ result.path = "banded"
    /\ IAbs(RewardOf(result.value) - previous.reward) = 400

\* C9: past the gate the raw weighted score s is banded by the fixed table
\* and the reward is the band's base reward plus the noise, clamped to [0, 1]
BandTable(s) ==
    IF s >= 9000 THEN 10000
    ELSE IF s >= 7500 THEN 4000
    ELSE IF s >= 6000 THEN 3000
    ELSE IF s >= 4000 THEN 1500
    ELSE 0
C9_BandedRewardFollowsTable ==
    (Called /\ result.path = "banded") =>
        /\ result.final_score = SumComponents(result.components)
        /\ result.noise \in -200..200
        /\ RewardOf(result.value) =
             Max(0, Min(10000, BandTable(result.final_score) + result.noise))
C9_Witness ==
    /\ Called
    /\ result.path = "banded"
    /\ result.final_score = 9000
    /\ result.noise = -200
    /\ RewardOf(result.value) = 9800

\* C10 (as stated): the pre-noise reward is monotone in the raw weighted
\* score, the raw score of a gated response being 0.2 times its structure score
HasRaw(path) == path \in {"gated", "banded"}
C10_MonotoneInRawScore ==
    (Called /\ HasRaw(result.path) /\ HasRaw(other.path)) =>
        /\ other.final_score < result.final_score => other.pre_noise <= PreNoise(result)
        /\ result.final_score < other.final_score => PreNoise(result) <= other.pre_noise
\* C10 (amended): the pre-noise reward is monotone in the raw weighted score
\* among the responses that pass the gate, and among the gated ones
C10_MonotoneOnEachSideOfGate ==
    (Called /\ HasRaw(result.path) /\ other.path = result.path) =>
        /\ other.final_score < result.final_score => other.pre_noise <= PreNoise(result)
        /\ result.final_score < other.final_score => PreNoise(result) <= other.pre_noise
C10_Witness ==
    /\ Called
    /\ result.path = "banded"
    /\ other.path = "banded"
    /\ other.final_score < result.final_score
    /\ other.pre_noise = 3000
    /\ PreNoise(result) = 4000

\* C11: a response that follows the schema of the workflow prompt, with every
\* figure correct and consistent and all decisions aligned, has a raw weighted
\* score of at least 0.90 and a reward within 0.02 of 1.0, whatever the risk
\* tier of the applicant
C11_SchemaResponseIsExcellent ==
    (Called /\ Submitted \in Profiles) =>
        /\ result.path = "banded"
        /\ result.final_score >= 9000
        /\ RewardOf(result.value) >= 9800

\* The responses that reach the band table
ReachesBands(i) == Outcomes[i][FALSE][0].path = "banded"

\* The agent entries and figures of a scored response, read as the scorers
\* read them
AgentOutputs(r) ==
    IF ParsedOk(r) /\ Parsed(r).t = "map" /\ "agent_outputs" \in DOMAIN Parsed(r).map
    THEN Parsed(r).map["agent_outputs"] ELSE EmptyMap
AgentOf(r, a) ==
    IF AgentOutputs(r).t = "map" /\ a \in DOMAIN AgentOutputs(r).map
       /\ AgentOutputs(r).map[a].t = "map"
    THEN AgentOutputs(r).map[a] ELSE EmptyMap
Figure(r, a, k) == GetFloat(AgentOf(r, a), k)
Reports(r, a, k) == k \in DOMAIN AgentOf(r, a).map
ReportedDti(r) == Figure(r, "credit_analyst", "dti_ratio")
AnnualRate(r) == Figure(r, "risk_manager", "interest_rate")
Term(r) == GetInt(AgentOf(r, "risk_manager"), "term_months")
RateAndTermReported(r) ==
    /\ Reports(r, "risk_manager", "interest_rate") /\ AnnualRate(r).exc = ""
    /\ Reports(r, "risk_manager", "term_months") /\ Term(r).exc = ""
FiguresReported(r) ==
    /\ Figure(r, "loan_officer", "monthly_income").exc = ""
    /\ Figure(r, "loan_officer", "monthly_debts").exc = ""
    /\ Figure(r, "loan_officer", "loan_amount").exc = ""

\* DTI recomputation is possible: positive income, rate and term present and
\* positive, and a numeric reported DTI (0 when dti_ratio is absent)
Recomputable(r) ==
    /\ FiguresReported(r)
    /\ RateAndTermReported(r)
    /\ ReportedDti(r).exc = ""
    /\ RLt(R(0), Figure(r, "loan_officer", "monthly_income").v)
    /\ RLt(R(0), AnnualRate(r).v)
    /\ Term(r).v > 0

\* The amortized payment and the expected DTI, (monthly_debts + payment) / monthly_income
ExpectedPayment(r) ==
    AmortizedPayment(Figure(r, "loan_officer", "loan_amount").v,
                     RDiv(AnnualRate(r).v, R(1200)), Term(r).v)
ExpectedDti(r) ==
    RDiv(RAdd(Figure(r, "loan_officer", "monthly_debts").v, ExpectedPayment(r)),
         Figure(r, "loan_officer", "monthly_income").v)

\* The ladder of the DTI increment, in hundredths
DtiLadder(reported, expected) ==
    LET diff == RAbs(RSub(reported, expected))
    IN  IF RLt(diff, Rat(5, 100)) THEN 50
        ELSE IF RLt(diff, Rat(10, 100)) THEN 30
        ELSE IF RLt(R(0), reported) THEN 10
        ELSE 0

\* The rate-tier and payment increments of a response whose DTI is recomputable
RateAndPaymentIncrements(r) ==
    LET tier == RateTierIncrement(GetLower(AgentOf(r, "credit_analyst"), "risk_assessment").v,
                                  AnnualRate(r).v)
        paid == Figure(r, "risk_manager", "monthly_payment")
        pay  == ExpectedPayment(r)
    IN  tier + (IF /\ Reports(r, "risk_manager", "monthly_payment")
                   /\ paid.exc = ""
                   /\ RLt(R(0), pay)
                   /\ RLt(RDiv(RAbs(RSub(paid.v, pay)), pay), Rat(5, 100))
                THEN 25 ELSE 0)

\* The calculation score the ladder gives each response whose DTI can be
\* recomputed, computed once per response
LadderCalculations ==
    Tabulated([i \in DOMAIN ResponseList |-> LET r == ResponseList[i] IN
      IF ReachesBands(i) /\ Recomputable(r)
      THEN [applies |-> TRUE,
            score |-> 25 * Min(100, DtiLadder(ReportedDti(r).v, ExpectedDti(r))
                                    + RateAndPaymentIncrements(r))]
      ELSE [applies |-> FALSE, score |-> -1]])

\* C12: when the DTI can be recomputed, the DTI increment of the calculation
\* score is +0.5 for |reported - expected| < 0.05, +0.3 for a difference in
\* [0.05, 0.10), +0.1 for a larger difference with reported > 0, 0 otherwise
C12_DtiIncrementFollowsLadder ==
    (Called /\ result.path = "banded" /\ LadderCalculations[current].applies) =>
        result.components.calculations = LadderCalculations[current].score
C12_Witness ==
    /\ Called
    /\ result.path = "banded"
    /\ Recomputable(Submitted)
    /\ ExpectedDti(Submitted) = Rat(41, 100)
    /\ ReportedDti(Submitted).v = Rat(40, 100)
    /\ result.components.calculations = 2500

\* The low-risk response with each of the reported DTIs
DtiVariants == {WithDti(LowRisk, d) : d \in ReportedDtis}
Closer(d, r) ==
    RLt(RAbs(RSub(d, ExpectedDti(r))), RAbs(RSub(ReportedDti(r).v, ExpectedDti(r))))
CalculationsWithDti(r, d) ==
    Outcomes[IndexOf(WithDti(r, d))][result.return_dict][result.noise].components.calculations
\* The reported DTIs strictly closer to the expected DTI than the one a
\* variant reports, computed once per response
CloserDtis ==
    Tabulated([i \in DOMAIN ResponseList |-> LET r == ResponseList[i] IN
      IF ReachesBands(i) /\ r \in DtiVariants THEN {d \in ReportedDtis : Closer(d, r)} ELSE {}])

\* C13 (as stated): replacing the reported DTI by any value strictly closer to
\* the expected DTI never decreases the calculation sub-score
C13_CloserDtiNeverScoresLower ==
    (Called /\ result.path = "banded") =>
        \A d \in CloserDtis[current] :
            CalculationsWithDti(Submitted, d) >= result.components.calculations
\* C13 (amended): replacing the reported DTI by a value greater than 0 that is
\* strictly closer to the expected DTI never decreases the calculation sub-score
C13_CloserPositiveDtiNeverScoresLower ==
    (Called /\ result.path = "banded") =>
        \A d \in CloserDtis[current] :
            RLt(R(0), d) => CalculationsWithDti(Submitted, d) >= result.components.calculations
C13_Witness ==
    /\ Called
    /\ result.path = "banded"
    /\ Submitted = WithDti(LowRisk, Rat(90, 100))
    /\ Closer(Rat(47, 100), Submitted)
    /\ result.components.calculations = 1500
    /\ CalculationsWithDti(Submitted, Rat(47, 100)) = 2000

\* The agents of a scored response that report field k, and their agreement
\* on a figure: at least two report it and all reported values are equal
Reporting(r, k) ==
    {a \in DOMAIN AgentOutputs(r).map : Reports(r, a, k)}
AgreeOn(r, k) ==
    /\ Cardinality(Reporting(r, k)) >= 2
    /\ \A a \in Reporting(r, k) : Figure(r, a, k).exc = ""
    /\ \A a, b \in Reporting(r, k) : Figure(r, a, k).v = Figure(r, b, k).v

\* A recommendation text normalized by substring, "" when it has neither stem
Normalized(text) ==
    LET u == StrUpper(text)
    IN  IF IsSubstring(Chars["APPROV"], u) THEN "APPROVED"
        ELSE IF IsSubstring(Chars["DENI"], u) \/ IsSubstring(Chars["DECLIN"], u) THEN "DENIED"
        ELSE ""
Recommendation(r, a) == AgentOf(r, a).map["recommendation"]
NormalizedRecommendations(r) ==
    {Normalized(Recommendation(r, a).str) : a \in Reporting(r, "recommendation")} \ {""}
FinalDecision(r) == PyGet(Parsed(r), "decision", JStr(<<>>)).v
AllRecommend(r, v) ==
    /\ Reporting(r, "recommendation") # {}
    /\ \A a \in Reporting(r, "recommendation") :
          /\ Recommendation(r, a).t = "str"
          /\ Normalized(Recommendation(r, a).str) = v
    /\ FinalDecision(r) = JStr(Chars[v])

\* The responses whose figures and recommendations are all consistent,
\* computed once per response
FullyConsistent ==
    Tabulated([i \in DOMAIN ResponseList |-> LET r == ResponseList[i] IN
      /\ ReachesBands(i)
      /\ AgreeOn(r, "loan_amount")
      /\ AgreeOn(r, "monthly_income")
      /\ \E v \in {"APPROVED", "DENIED"} : AllRecommend(r, v)])

WithoutAgentOutputs(r) ==
    /\ ParsedOk(r)
    /\ Parsed(r).t = "map"
    /\ "agent_outputs" \notin DOMAIN Parsed(r).map
PassesGate(r) ==
    /\ ParsedOk(r)
    /\ Parsed(r).t = "map"
    /\ StructureOf(r).exc = ""
    /\ StructureOf(r).v >= 50
    /\ AgentOutputs(r).t = "map"
    /\ \A a \in DOMAIN AgentOutputs(r).map : AgentOutputs(r).map[a].t = "map"

\* The payment cannot be recomputed: rate or term absent, or income, monthly
\* rate or term not positive
CannotRecompute(r) ==
    /\ FiguresReported(r)
    /\ \/ ~Reports(r, "risk_manager", "interest_rate")
       \/ ~Reports(r, "risk_manager", "term_months")
       \/ ~RLt(R(0), Figure(r, "loan_officer", "monthly_income").v)
       \/ AnnualRate(r).exc = "" /\ ~RLt(R(0), AnnualRate(r).v)
       \/ Term(r).exc = "" /\ Term(r).v <= 0

\* C16: when the payment cannot be recomputed the calculation score is 0, no
\* rate-tier or payment increment is awarded, and the other scorers run normally
C16_UnverifiableCalculationScoresZero ==
    (Called /\ PassesGate(Submitted) /\ CannotRecompute(Submitted)) =>
        /\ result.path = "banded"
        /\ result.components.calculations = 0

\* The metrics of the decision-logic scorer are extracted without error: a
\* numeric (or absent) dti_ratio, credit_score and interest_rate, and strings
\* for risk_assessment and the two decisions
RiskManagerDecision(r) == GetUpper(AgentOf(r, "risk_manager"), "decision")
MetricsExtracted(r) ==
    /\ ReportedDti(r).exc = ""
    /\ GetInt(AgentOf(r, "credit_analyst"), "credit_score").exc = ""
    /\ GetLower(AgentOf(r, "credit_analyst"), "risk_assessment").exc = ""
    /\ RiskManagerDecision(r).exc = ""
    /\ AnnualRate(r).exc = ""
    /\ FinalDecision(r).t = "str"

\* The decision-match, credit-score and risk-alignment increments
OtherDecisionIncrements(r) ==
    DLRiskRule(
      DLCreditRule(
        DLDecisionMatch(
          DLExtract(DLFrame, AgentOf(r, "credit_analyst"), AgentOf(r, "risk_manager")),
          FinalDecision(r)))).score

HighDtiIncrement(r) ==
    IF RiskManagerDecision(r).v = Chars["DENIED"] THEN 30
    ELSE IF RiskManagerDecision(r).v = Chars["APPROVED"] /\ RLt(R(12), AnnualRate(r).v) THEN 20
    ELSE 0

\* The decision-logic score of each response whose metrics are extracted, with
\* the DTI rule as stated and as amended, computed once per response
DecisionLogicWith(r, low) ==
    20 * Min(100, OtherDecisionIncrements(r)
                  + (IF RLt(Rat(43, 100), ReportedDti(r).v) THEN HighDtiIncrement(r) ELSE low))
RuledDecisionLogic ==
    Tabulated([i \in DOMAIN ResponseList |-> LET r == ResponseList[i] IN
      IF ReachesBands(i) /\ MetricsExtracted(r)
      THEN [applies |-> TRUE,
            stated  |-> DecisionLogicWith(r, 10),
            amended |-> DecisionLogicWith(r, IF RLt(R(0), ReportedDti(r).v) THEN 10 ELSE 0)]
      ELSE [applies |-> FALSE, stated |-> -1, amended |-> -1]])

\* C17 (as stated): the DTI rule adds +0.3 for DTI > 0.43 with DENIED, +0.2 for
\* DTI > 0.43 with APPROVED and interest_rate > 12, and +0.1 whenever
\* DTI <= 0.43, also for a DTI of 0 or an absent dti_ratio
C17_DtiRuleFlatCreditForAnyLowDti ==
    (Called /\ result.path = "banded" /\ RuledDecisionLogic[current].applies) =>
        result.components.decision_logic = RuledDecisionLogic[current].stated
\* C17 (amended): ... and +0.1 whenever 0 < DTI <= 0.43; a DTI of 0 or less,
\* or an absent dti_ratio, adds nothing
C17_DtiRuleFlatCreditForPositiveLowDti ==
    (Called /\ result.path = "banded" /\ RuledDecisionLogic[current].applies) =>
        result.components.decision_logic = RuledDecisionLogic[current].amended
C17_Witness ==
    /\ Called
    /\ result.path = "banded"
    /\ MetricsExtracted(Submitted)
    /\ ~Reports(Submitted, "credit_analyst", "dti_ratio")
    /\ OtherDecisionIncrements(Submitted) = 70
    /\ result.components.decision_logic = 1400

\* The recommendation rule: +0.4 when the normalized recommendations all agree
\* with the final decision, +0.2 when they disagree among themselves, else 0
RecommendationRule(r) ==
    LET recs == NormalizedRecommendations(r)
    IN  IF recs = {} THEN 0
        ELSE IF Cardinality(recs) > 1 THEN 20
        ELSE IF \E v \in recs : FinalDecision(r) = JStr(Chars[v]) THEN 40
        ELSE 0
AgreementIncrement(r, k) == IF AgreeOn(r, k) THEN 30 ELSE 0
\* The consistency score the three rules give each banded response, computed
\* once per response
RuledConsistency ==
    Tabulated([i \in DOMAIN ResponseList |-> LET r == ResponseList[i] IN
      IF ReachesBands(i)
      THEN 15 * Min(100, AgreementIncrement(r, "loan_amount")
                         + AgreementIncrement(r, "monthly_income")
                         + RecommendationRule(r))
      ELSE -1])

\* C18: the recommendation rule of the consistency scorer adds +0.4 when every
\* normalized recommendation agrees with the final decision, +0.2 when the
\* normalized recommendations disagree among themselves, and 0 when they agree
\* with each other but not with the decision or when none can be normalized
C18_RecommendationRule ==
    (Called /\ result.path = "banded") =>
        result.components.consistency = RuledConsistency[current]
C18_Witness ==
    /\ Called
    /\ result.path = "banded"
    /\ NormalizedRecommendations(Submitted) = {"APPROVED", "DENIED"}
    /\ RecommendationRule(Submitted) = 20
    /\ result.components.consistency = 1200

\* T, A and C of the structure score: top-level fields present, required agent
\* keys present and mapping-shaped, agents containing all their critical fields
TopLevelPresent(r) ==
    Cardinality({k \in {"agent_outputs", "decision", "trajectory_id"} : k \in DOMAIN Parsed(r).map})
AgentEntries(r) == IF AgentOutputs(r).t = "map" THEN AgentOutputs(r).map ELSE <<>>
MappingAgents(r) ==
    Cardinality({a \in {"loan_officer", "credit_analyst", "risk_manager"} :
                    a \in DOMAIN AgentEntries(r) /\ AgentEntries(r)[a].t = "map"})
ContainsAll(x, fields) ==
    /\ x.t \in {"map", "list", "str"}
    /\ \A k \in fields : PyIn(k, x).v
CriticalOf(a) ==
    CASE a = "loan_officer"   -> {"monthly_income", "monthly_debts", "loan_amount"}
      [] a = "credit_analyst" -> {"dti_ratio", "credit_score", "risk_assessment"}
      [] a = "risk_manager"   -> {"decision", "interest_rate"}
CompleteAgents(r) ==
    Cardinality({a \in {"loan_officer", "credit_analyst", "risk_manager"} :
                    a \in DOMAIN AgentEntries(r) /\ ContainsAll(AgentEntries(r)[a], CriticalOf(a))})
StructureFormula(r) ==
    Min(100, 20 * TopLevelPresent(r) + 13 * MappingAgents(r) + 10 * CompleteAgents(r))

\* The structure score of each mapping-shaped envelope and the value of the
\* formula on it, computed once per response
FormulaStructure ==
    Tabulated([i \in DOMAIN ResponseList |-> LET r == ResponseList[i] IN
      IF ParsedOk(r) /\ Parsed(r).t = "map" /\ StructureOf(r).exc = ""
      THEN [applies |-> TRUE, score |-> StructureOf(r).v, formula |-> StructureFormula(r)]
      ELSE [applies |-> FALSE, score |-> -1, formula |-> -1]])

\* C19: the structure score of a mapping-shaped envelope is
\* min(1.0, 0.2*T + 0.13*A + 0.1*C), within [0, 1]
C19_StructureScoreFormula ==
    (Called /\ FormulaStructure[current].applies) =>
        /\ FormulaStructure[current].score = FormulaStructure[current].formula
        /\ FormulaStructure[current].score \in 0..100
        /\ result.path \in {"gated", "banded"} =>
               result.structure_score = FormulaStructure[current].formula
C19_Witness ==
    /\ Called
    /\ result.path = "banded"
    /\ TopLevelPresent(Submitted) = 3
    /\ MappingAgents(Submitted) = 2
    /\ CompleteAgents(Submitted) = 2
    /\ result.structure_score = 100

\* C20: each of the five component scores is within [0, 1] before weighting
\* and the raw weighted score, their weighted sum, is within [0, 1]
C20_ComponentsWithinUnitInterval ==
    (Called /\ result.path \in {"gated", "banded"}) =>
        /\ result.structure_score \in 0..100
        /\ result.components.structure = 20 * result.structure_score
        /\ result.components.calculations \in 0..2500
        /\ result.components.risk_assessment \in 0..2000
        /\ result.components.decision_logic \in 0..2000
        /\ result.components.consistency \in 0..1500
        /\ result.final_score = SumComponents(result.components)
        /\ result.final_score \in 0..10000
C20_Witness ==
    /\ Called
    /\ result.path = "banded"
    /\ result.components =
         [structure |-> 2000, calculations |-> 2500, risk_assessment |-> 2000,
          decision_logic |-> 2000, consistency |-> 1500]
    /\ result.final_score = 10000

\* C21: concurrent score calls on different responses share no mutable state:
\* no call reads or writes a variable that another call writes; the generator
\* of the noise keeps its state local to the call or thread, it is not a
\* process-wide generator shared by all calls
C21_CallsShareNoMutableState ==
    \A w, u \in Workers : w # u => runs[w].shared \cap runs[u].shared = {}

\* The envelope with its final decision in upper case, and for each response
\* the position of that envelope when it is another response of the model
\* (0 otherwise), computed once per response
WithUpperDecision(r) == MapSet(r, "decision", JStr(StrUpper(r.map["decision"].str)))
UpperCased ==
    Tabulated([i \in DOMAIN ResponseList |-> LET r == ResponseList[i] IN
      IF /\ r.t = "map"
         /\ "decision" \in DOMAIN r.map
         /\ r.map["decision"].t = "str"
         /\ WithUpperDecision(r) # r
         /\ \E j \in DOMAIN ResponseList : ResponseList[j] = WithUpperDecision(r)
      THEN IndexOf(WithUpperDecision(r)) ELSE 0])

\* C22: the letter case of the final decision does not affect the reward: two
\* envelopes that differ only in the case of decision get the same
\* decision_logic score, the same consistency score and the same reward
\* before noise
C22_DecisionCaseDoesNotMatter ==
    (Called /\ Returned(result) /\ UpperCased[current] # 0) =>
        LET upper == Outcomes[UpperCased[current]][result.return_dict][result.noise]
        IN  /\ upper.components.decision_logic = result.components.decision_logic
            /\ upper.components.consistency = result.components.consistency
            /\ PreNoise(upper) = PreNoise(result)

\* What the reward function did on an experience of the batch, and the reward
\* the claim reads from a returned object
ScoredAs(e) == Outcomes[e.response][is_eval][e.noise]
StatedReward(value) ==
    IF value.t = "float" THEN value.float
    ELSE IF "reward" \in DOMAIN value.dict THEN value.dict["reward"]
    ELSE SumComponents(value.dict)

\* C23: run gives every experience a numeric reward in [0, 1]: the reward key
\* of a returned mapping (or the sum of its values), the mapping being stored
\* as the metrics; 0.0 when the reward function raises, with metrics
\* {"reward": 0.0} in eval mode; a failure does not stop the experiences after
\* it from being scored
C23_EveryExperienceGetsAReward ==
    \A w \in Workers : \A k \in 1..Len(runs[w].experiences) :
        LET e == runs[w].experiences[k]
        IN  /\ e.reward \in 0..10000
            /\ Returned(ScoredAs(e)) =>
                  /\ e.reward = StatedReward(ScoredAs(e).value)
                  /\ ScoredAs(e).value.t = "dict" => e.metrics = ScoredAs(e).value
            /\ ~Returned(ScoredAs(e)) =>
                  /\ e.reward = 0
                  /\ is_eval => e.metrics = PyDictValue([reward |-> 0])
C23_Witness ==
    /\ is_eval
    /\ \E w \in Workers :
          /\ Len(runs[w].experiences) = 2
          /\ ScoredAs(runs[w].experiences[1]).path = "escaped"
          /\ runs[w].experiences[1].reward = 0
          /\ runs[w].experiences[1].metrics = PyDictValue([reward |-> 0])
          /\ ScoredAs(runs[w].experiences[2]).path = "banded"
          /\ runs[w].experiences[2].reward >= 9800
          /\ runs[w].experiences[2].metrics = ScoredAs(runs[w].experiences[2]).value

\* C24: when __init__ calls _preprocess_dataset, prompt_key and response_key
\* have already been assigned on self, so for a non-empty dataset the call
\* raises nothing, construction goes on, and every sample with a non-empty
\* list of responses is reduced to its response of maximum reward
C24_PreprocessReadsAssignedAttributes ==
    (reader.pc \in {"preprocessed", "raised", "constructed"} /\ reader.dataset # <<>>) =>
        /\ {"prompt_key", "response_key"} \subseteq reader.assigned
        /\ reader.exc = ""
        /\ Len(reader.processed) = Len(reader.dataset)
        /\ \A k \in DOMAIN reader.dataset :
              LET sample == reader.dataset[k]
              IN  (sample.is_list /\ sample.responses # <<>>) =>
                    /\ \E j \in DOMAIN sample.responses :
                          /\ reader.processed[k].response = sample.responses[j].response
                          /\ reader.processed[k].reward = sample.responses[j].reward
                    /\ \A j \in DOMAIN sample.responses :
                          sample.responses[j].reward <= reader.processed[k].reward
====
